---- MODULE Spec2Model ----
(***************************************************************************)
(* The CHW intervention agent of vertexcare/agents/chw_agent.py: the       *)
(* bounded Reason-Act-Observe loop run_agent, the backend client           *)
(* call_agent_llm with its retry and backoff, the Thought/Action parser    *)
(* parse_llm_output and the tool dispatcher execute_tool.                  *)
(*                                                                         *)
(* run_ingestion of vertexcare/data_processing/ingestion.py is modelled by  *)
(* its own specification, IngestSpec.                                      *)
(*                                                                         *)
(* Python strings are sequences of tokens (a marker, a word, a            *)
(* parenthesis, a run of digits, a complete JSON text); Python values are  *)
(* records tagged with their type.                                         *)
(***************************************************************************)
EXTENDS Integers, Sequences, FiniteSets, TLC

VARIABLES
    API_KEY,      \* chw_agent.API_KEY: TRUE when a key is configured
    backend,      \* the texts the backend stub can answer with
    tool_stub,    \* "module": the tools run on the data; "raises": they raise
    server,       \* "starting", "serving" or "stopped": the lifespan of the app
    ml_assets,    \* the keys of main.ml_assets
    requests,     \* the requests that arrive, one run each
    running,      \* the run the event loop is executing, 0 when none
    run,          \* per run: the frame of run_agent and of its callee
    ingest        \* the frame of run_ingestion and the files it reads and writes

vars == <<API_KEY, backend, tool_stub, server, ml_assets, requests, running, run, ingest>>

env == <<API_KEY, backend, tool_stub, requests, ingest>>

-----------------------------------------------------------------------------
(* Bounds and program constants *)

NumPatients == 2
NumRuns == 2
MaxCols == 2
NumRows == 2

MAX_ITERATIONS == 5
DefaultRetries == 3
DefaultDelay == 5

Patients == 1..NumPatients
Runs == 1..NumRuns

-----------------------------------------------------------------------------
(* Python values *)

Str(toks) == [type |-> "str", toks |-> toks]

ErrorDict(msg) == [type |-> "dict", keys |-> {"error"}, error |-> msg]

None == [type |-> "None"]

\* "error" in v, for the values run_agent handles.
IsError(v) == v.type = "dict" /\ "error" \in v.keys

\* Line 185.
ParseError == ErrorDict(<<"Failed to parse the final plan from the LLM.">>)

\* Line 204.
Incomplete == ErrorDict(<<"Agent failed to complete.">>)

\* The decimal rendering of the integers the model uses, and int() of it.
IntTokens == <<"1", "2", "3", "4">>

IsIntToken(t) == \E n \in DOMAIN IntTokens : IntTokens[n] = t

IntOf(t) == CHOOSE n \in DOMAIN IntTokens : IntTokens[n] = t

WS == " "

\* The code-fence token: three backticks.
Fence == "[fence]"

\* x in v: a substring test on a str, a key test on a dict.
Contains(v, x) ==
    IF v.type = "str" THEN \E k \in DOMAIN v.toks : v.toks[k] = x
    ELSE IF v.type = "dict" THEN x \in v.keys
    ELSE FALSE

RECURSIVE LStrip(_)
LStrip(s) == IF s # <<>> /\ Head(s) = WS THEN LStrip(Tail(s)) ELSE s

RECURSIVE RStrip(_)
RStrip(s) ==
    IF s # <<>> /\ s[Len(s)] = WS THEN RStrip(SubSeq(s, 1, Len(s) - 1)) ELSE s

\* str.strip()
Strip(s) == RStrip(LStrip(s))

\* The index of the first occurrence of token x in s at or after from, 0 if none.
Find(s, x, from) ==
    IF \E k \in from..Len(s) : s[k] = x
    THEN CHOOSE k \in from..Len(s) : s[k] = x /\ \A j \in from..(k - 1) : s[j] # x
    ELSE 0

-----------------------------------------------------------------------------
(* JSON texts a final answer can carry, and json.loads of them *)

PlanKeys == {"patient_id", "readmission_risk_score", "risk_summary", "recommended_actions"}

Priorities == {"High", "Medium", "Low"}

\* score is in hundredths.
JsonValue(t) ==
    CASE t = "{plan}" ->
            [type |-> "dict", keys |-> PlanKeys, score |-> 45, priorities |-> {"High", "Low"}]
      [] t = "{plan without risk_summary}" ->
            [type |-> "dict", keys |-> PlanKeys \ {"risk_summary"}, score |-> 45,
             priorities |-> {"High"}]
      [] t = "{plan with score 1.5}" ->
            [type |-> "dict", keys |-> PlanKeys, score |-> 150, priorities |-> {"Medium"}]
      [] t = "{plan with priority Urgent}" ->
            [type |-> "dict", keys |-> PlanKeys, score |-> 15, priorities |-> {"Urgent"}]
      [] t = "{error: refused}" -> ErrorDict(<<"refused">>)
      [] t = "[1, 2]" -> [type |-> "list", len |-> 2]
      [] t = "42" -> [type |-> "int", int |-> 42]

JsonTexts ==
    {"{plan}", "{plan without risk_summary}", "{plan with score 1.5}",
     "{plan with priority Urgent}", "{error: refused}", "[1, 2]", "42"}

\* json.loads(s): [ok |-> TRUE, value |-> v], or [ok |-> FALSE] when it raises.
JsonLoads(s) ==
    LET t == Strip(s)
    IN  IF Len(t) = 1 /\ t[1] \in JsonTexts
        THEN [ok |-> TRUE, value |-> JsonValue(t[1])]
        ELSE [ok |-> FALSE]

-----------------------------------------------------------------------------
(* call_agent_llm *)

BackendOutcomes(menu) ==
    {[kind |-> "text", toks |-> r] : r \in menu}
        \cup {[kind |-> "blocked"], [kind |-> "rate_limit"], [kind |-> "exception"]}

ExceptionText == <<"503 The service is currently unavailable.">>

\* The call returns v to run_agent.
ReturnLLM(s, v) == [s EXCEPT !.pc = "response", !.llm_response = v]

\* MUTANT of CallEntry: the backend is tried also without an API key.
CallEntry_IgnoresKey(s, key) ==
    [s EXCEPT !.pc = "attempt", !.prompt = s.prompt_history, !.llm_calls = @ + 1,
              !.retries = DefaultRetries, !.delay = DefaultDelay,
              !.attempt = 0, !.attempts_made = 0, !.failures = <<>>,
              !.waits = <<>>]

\* Lines 82-85: entry of call_agent_llm(prompt_history, ...).
CallEntry(s, key) ==
    LET c == [s EXCEPT !.prompt = s.prompt_history, !.llm_calls = @ + 1,
                       !.retries = DefaultRetries, !.delay = DefaultDelay,
                       !.attempt = 0, !.attempts_made = 0, !.failures = <<>>,
                       !.waits = <<>>]
    IN  IF ~key
        THEN ReturnLLM(c, ErrorDict(<<"Gemini API key is not configured.">>))
        ELSE [c EXCEPT !.pc = "attempt"]

\* An except clause is entered and waits: lines 97-101, 104-108.
Failed(s, kind) == [s EXCEPT !.pc = "sleep", !.failures = Append(@, kind)]

\* MUTANT of AttemptBody: the exception of the last attempt is raised again
\* instead of being returned as an error value.
AttemptBody_Raises(s, out) ==
    LET a == [s EXCEPT !.attempts_made = @ + 1]
    IN  CASE out.kind = "text" -> ReturnLLM(a, Str(out.toks))
          [] out.kind = "blocked" ->
                ReturnLLM(a, ErrorDict(<<"Response was blocked by safety settings.">>))
          [] out.kind = "rate_limit" -> Failed(a, out.kind)
          [] out.kind = "exception" ->
                IF a.attempt < a.retries - 1
                THEN Failed(a, out.kind)
                ELSE [a EXCEPT !.pc = "raised", !.failures = Append(@, out.kind)]

\* MUTANT of AttemptBody: a response withheld by the safety filter is retried
\* like any other failure.
AttemptBody_RetriesBlocked(s, out) ==
    LET a == [s EXCEPT !.attempts_made = @ + 1]
    IN  CASE out.kind = "text" -> ReturnLLM(a, Str(out.toks))
          [] out.kind \in {"blocked", "rate_limit"} -> Failed(a, out.kind)
          [] out.kind = "exception" ->
                IF a.attempt < a.retries - 1
                THEN Failed(a, out.kind)
                ELSE ReturnLLM([a EXCEPT !.failures = Append(@, out.kind)],
                               ErrorDict(ExceptionText))

\* Lines 88-111: one pass of the body of "for i in range(retries)".
AttemptBody(s, out) ==
    LET a == [s EXCEPT !.attempts_made = @ + 1]
    IN  CASE out.kind = "text" -> ReturnLLM(a, Str(out.toks))
          [] out.kind = "blocked" ->
                ReturnLLM(a, ErrorDict(<<"Response was blocked by safety settings.">>))
          [] out.kind = "rate_limit" -> Failed(a, out.kind)
          [] out.kind = "exception" ->
                IF a.attempt < a.retries - 1
                THEN Failed(a, out.kind)
                ELSE ReturnLLM([a EXCEPT !.failures = Append(@, out.kind)],
                               ErrorDict(ExceptionText))

\* MUTANT of SleepBody: the delay grows by the initial delay instead of doubling.
SleepBody_Linear(s) ==
    LET w == [s EXCEPT !.waits = Append(@, s.delay), !.delay = @ + DefaultDelay,
                       !.attempt = @ + 1]
    IN  IF w.attempt < w.retries
        THEN [w EXCEPT !.pc = "attempt"]
        ELSE ReturnLLM(w, ErrorDict(<<"Failed to call Gemini API after",
                                      IntTokens[w.retries], "attempts.">>))

\* Lines 101-102 and 108-109: time.sleep(delay); delay *= 2; then the next
\* pass of the for loop, or line 113 when the range is exhausted.
SleepBody(s) ==
    LET w == [s EXCEPT !.waits = Append(@, s.delay), !.delay = 2 * @,
                       !.attempt = @ + 1]
    IN  IF w.attempt < w.retries
        THEN [w EXCEPT !.pc = "attempt"]
        ELSE ReturnLLM(w, ErrorDict(<<"Failed to call Gemini API after",
                                      IntTokens[w.retries], "attempts.">>))

-----------------------------------------------------------------------------
(* parse_llm_output *)

\* re.search(r"Thought:(.*?)Action:", response, re.DOTALL).group(1).strip()
ThoughtOf(toks) ==
    LET t == Find(toks, "Thought:", 1)
        a == IF t = 0 THEN 0 ELSE Find(toks, "Action:", t + 1)
    IN  IF a = 0 THEN <<>> ELSE Strip(SubSeq(toks, t + 1, a - 1))

\* re.search(r"Action:(.*)", response, re.DOTALL).group(1).strip()
ActionOf(toks) ==
    LET a == Find(toks, "Action:", 1)
    IN  IF a = 0 THEN <<>> ELSE Strip(SubSeq(toks, a + 1, Len(toks)))

parse_llm_output(response) ==
    [thought |-> ThoughtOf(response.toks), action |-> ActionOf(response.toks)]

-----------------------------------------------------------------------------
(* The tools of agent_tools.py and execute_tool *)

ToolNames == {"prediction_tool", "notes_tool", "explanation_tool"}

\* The patient_id column of the patient-data table.
patient_data_df == {1}

PayloadKey(tool) ==
    CASE tool = "prediction_tool" -> "readmission_risk_score"
      [] tool = "notes_tool" -> "notes"
      [] tool = "explanation_tool" -> "top_risk_factors"

\* A tool's own result: its Success payload, or the Error payload of its
\* except clause when get_patient_data raises.
ToolResult(tool, pid) ==
    IF pid \in patient_data_df
    THEN [type |-> "dict", keys |-> {"patient_id", PayloadKey(tool), "status"},
          patient_id |-> pid, status |-> "Success", tool |-> tool]
    ELSE [type |-> "dict", keys |-> {"patient_id", "error", "status"},
          patient_id |-> pid, status |-> "Error",
          error |-> <<"Patient with ID", IntTokens[pid], "not found.">>]

ToolRaisedText == <<"got an unexpected keyword argument 'model'">>

\* action.split("(", 1)[0].strip()
FuncName(action) ==
    LET p == Find(action, "(", 1)
    IN  Strip(IF p = 0 THEN action ELSE SubSeq(action, 1, p - 1))

\* re.search(r"\(.*?(\d+).*?\)", action): the index of the digits matched, 0
\* when there is no match.
MatchInt(action) ==
    LET p == Find(action, "(", 1)
        ints == IF p = 0 THEN {}
                ELSE {k \in (p + 1)..Len(action) : IsIntToken(action[k])}
        d == IF ints = {} THEN 0 ELSE CHOOSE k \in ints : \A j \in ints : k <= j
    IN  IF d # 0 /\ Find(action, ")", d + 1) # 0 THEN d ELSE 0

ToolError(msg) == ErrorDict(<<"Failed to execute tool:">> \o msg)

\* MUTANT of execute_tool: the tool name is not validated against the registry.
execute_tool_NoNameCheck(action, stub) ==
    LET func_name == FuncName(action)
        m == MatchInt(action)
    IN  IF m = 0
        THEN [result |-> ToolError(<<"Could not find a valid integer patient ID in action:">>
                                      \o action),
              invoked |-> <<>>]
        ELSE LET call == [tool |-> IF func_name = <<>> THEN "" ELSE func_name[1],
                          patient_id |-> IntOf(action[m])]
             IN  IF stub = "raises" \/ call.tool \notin ToolNames
                 THEN [result |-> ToolError(ToolRaisedText), invoked |-> <<call>>]
                 ELSE [result |-> ToolResult(call.tool, call.patient_id),
                       invoked |-> <<call>>]

\* MUTANT of execute_tool: the exception of a tool that raises is not caught.
execute_tool_Propagates(action, stub) ==
    LET func_name == FuncName(action)
        m == MatchInt(action)
    IN  IF m = 0
        THEN [result |-> ToolError(<<"Could not find a valid integer patient ID in action:">>
                                      \o action),
              invoked |-> <<>>]
        ELSE IF ~(Len(func_name) = 1 /\ func_name[1] \in ToolNames)
        THEN [result |-> ToolError(<<"Unknown tool specified:">> \o func_name),
              invoked |-> <<>>]
        ELSE LET call == [tool |-> func_name[1], patient_id |-> IntOf(action[m])]
             IN  IF stub = "raises"
                 THEN [result |-> [type |-> "exception", keys |-> {}, text |-> ToolRaisedText],
                       invoked |-> <<call>>]
                 ELSE [result |-> ToolResult(call.tool, call.patient_id),
                       invoked |-> <<call>>]

\* MUTANT of execute_tool: an empty action runs the prediction tool on patient 1.
execute_tool_EmptyDefaults(action, stub) ==
    LET func_name == FuncName(action)
        m == MatchInt(action)
    IN  IF action = <<>>
        THEN [result |-> ToolResult("prediction_tool", 1),
              invoked |-> <<[tool |-> "prediction_tool", patient_id |-> 1]>>]
        ELSE IF m = 0
        THEN [result |-> ToolError(<<"Could not find a valid integer patient ID in action:">>
                                      \o action),
              invoked |-> <<>>]
        ELSE IF ~(Len(func_name) = 1 /\ func_name[1] \in ToolNames)
        THEN [result |-> ToolError(<<"Unknown tool specified:">> \o func_name),
              invoked |-> <<>>]
        ELSE LET call == [tool |-> func_name[1], patient_id |-> IntOf(action[m])]
             IN  IF stub = "raises"
                 THEN [result |-> ToolError(ToolRaisedText), invoked |-> <<call>>]
                 ELSE [result |-> ToolResult(call.tool, call.patient_id),
                       invoked |-> <<call>>]

\* [result |-> the dictionary returned, invoked |-> the tool calls made]
execute_tool(action, stub) ==
    LET func_name == FuncName(action)
        m == MatchInt(action)
    IN  IF m = 0
        THEN [result |-> ToolError(<<"Could not find a valid integer patient ID in action:">>
                                      \o action),
              invoked |-> <<>>]
        ELSE IF ~(Len(func_name) = 1 /\ func_name[1] \in ToolNames)
        THEN [result |-> ToolError(<<"Unknown tool specified:">> \o func_name),
              invoked |-> <<>>]
        ELSE LET call == [tool |-> func_name[1], patient_id |-> IntOf(action[m])]
             IN  IF stub = "raises"
                 THEN [result |-> ToolError(ToolRaisedText), invoked |-> <<call>>]
                 ELSE [result |-> ToolResult(call.tool, call.patient_id),
                       invoked |-> <<call>>]

-----------------------------------------------------------------------------
(* run_agent *)

\* Line 164.
Seed(pid) ==
    <<[type |-> "seed", toks |-> <<"SYSTEM_PROMPT", "Begin analysis for patient_id:",
                                   IntTokens[pid]>>]>>

\* MUTANT of Turn: the observation is put before the response.
Turn_ObservationFirst(llm_response, tool_result) ==
    <<[type |-> "observation", json_dumps |-> tool_result],
      [type |-> "line", toks |-> llm_response.toks]>>

\* Line 201: f"\n{llm_response}\n{observation}", with line 198's observation.
Turn(llm_response, tool_result) ==
    <<[type |-> "line", toks |-> llm_response.toks],
      [type |-> "observation", json_dumps |-> tool_result]>>

\* run_agent returns v from the return statement at the given line.
Return(s, v, line) == [s EXCEPT !.pc = "done", !.returned = v, !.returned_at = line]

\* Lines 175-180: the text json.loads is given.
JsonStr(toks) ==
    LET m == Find(toks, "Final Answer:", 1)
        n == Find(toks, "Final Answer:", m + 1)
        part == Strip(SubSeq(toks, m + 1, IF n = 0 THEN Len(toks) ELSE n - 1))
        a == IF Len(part) >= 2 /\ part[1] = Fence /\ part[2] = "json"
             THEN SubSeq(part, 3, Len(part)) ELSE part
        b == IF a # <<>> /\ a[Len(a)] = Fence THEN SubSeq(a, 1, Len(a) - 1) ELSE a
    IN  Strip(b)

\* MUTANT of FinalAnswer: a final answer that does not decode is asked for again.
FinalAnswer_Retry(s) ==
    LET d == JsonLoads(JsonStr(s.llm_response.toks))
    IN  IF d.ok THEN Return(s, d.value, 182) ELSE [s EXCEPT !.pc = "call_llm"]

\* Lines 171-185.
FinalAnswer(s) ==
    LET d == JsonLoads(JsonStr(s.llm_response.toks))
    IN  IF d.ok THEN Return(s, d.value, 182)
        ELSE Return(s, ParseError, 185)

\* The callee's frame is gone once its value is taken.
DropFrame(s) ==
    [s EXCEPT !.retries = 0, !.delay = 0, !.attempt = 0, !.attempts_made = 0,
              !.failures = <<>>, !.waits = <<>>]

\* MUTANT of ResponseBody: a backend error is replaced by the loop's own error.
ResponseBody_GenericError(s) ==
    LET t == DropFrame(s)
    IN  IF Contains(t.llm_response, "Final Answer:") THEN FinalAnswer(t)
        ELSE IF t.llm_response.type = "dict"
        THEN Return(t, Incomplete, 189)
        ELSE [t EXCEPT !.pc = "tool",
                       !.action = parse_llm_output(t.llm_response).action]

\* MUTANT of ResponseBody: a text without an Action: marker is returned as the
\* answer.
ResponseBody_ReturnsText(s) ==
    LET t == DropFrame(s)
    IN  IF Contains(t.llm_response, "Final Answer:") THEN FinalAnswer(t)
        ELSE IF t.llm_response.type = "dict" THEN Return(t, t.llm_response, 189)
        ELSE IF parse_llm_output(t.llm_response).action = <<>>
        THEN Return(t, t.llm_response, 189)
        ELSE [t EXCEPT !.pc = "tool",
                       !.action = parse_llm_output(t.llm_response).action]

\* MUTANT of ResponseBody: the next backend call is started before the tool
\* of this iteration is dispatched.
ResponseBody_SkipsDispatch(s) ==
    LET t == DropFrame(s)
    IN  IF Contains(t.llm_response, "Final Answer:") THEN FinalAnswer(t)
        ELSE IF t.llm_response.type = "dict" THEN Return(t, t.llm_response, 189)
        ELSE [t EXCEPT !.pc = "call_llm",
                       !.action = parse_llm_output(t.llm_response).action]

\* MUTANT of ResponseBody: a response with an Action: marker is dispatched
\* before the terminal marker is looked for.
ResponseBody_ActionFirst(s) ==
    LET t == DropFrame(s)
    IN  IF t.llm_response.type = "str" /\ Contains(t.llm_response, "Action:")
        THEN [t EXCEPT !.pc = "tool",
                       !.action = parse_llm_output(t.llm_response).action]
        ELSE IF Contains(t.llm_response, "Final Answer:") THEN FinalAnswer(t)
        ELSE IF t.llm_response.type = "dict" THEN Return(t, t.llm_response, 189)
        ELSE [t EXCEPT !.pc = "tool",
                       !.action = parse_llm_output(t.llm_response).action]

\* MUTANT of ResponseBody: the failed attempts of the call are noted in the
\* transcript.
ResponseBody_LogsRetries(s) ==
    LET t == DropFrame(s)
        u == IF s.failures = <<>> THEN t
             ELSE [t EXCEPT !.prompt_history =
                       @ \o <<[type |-> "note", toks |-> s.failures]>>]
    IN  IF Contains(u.llm_response, "Final Answer:") THEN FinalAnswer(u)
        ELSE IF u.llm_response.type = "dict" THEN Return(u, u.llm_response, 189)
        ELSE [u EXCEPT !.pc = "tool",
                       !.action = parse_llm_output(u.llm_response).action]

\* Lines 171-195: what run_agent does with the value of call_agent_llm.
ResponseBody(s) ==
    LET t == DropFrame(s)
    IN  IF Contains(t.llm_response, "Final Answer:") THEN FinalAnswer(t)
        ELSE IF t.llm_response.type = "dict" THEN Return(t, t.llm_response, 189)
        ELSE [t EXCEPT !.pc = "tool",
                       !.action = parse_llm_output(t.llm_response).action]

\* MUTANT of ToolStep: the transcript keeps only the seed and the last turn.
ToolStep_KeepsLastTurn(s, stub) ==
    LET x == execute_tool(s.action, stub)
    IN  [s EXCEPT !.tool_calls = @ + 1,
                  !.tool_result = x.result,
                  !.invoked = @ \o x.invoked,
                  !.prompt_history = Seed(s.patient_id) \o Turn(s.llm_response, x.result),
                  !.iteration = @ + 1]

\* The statements of lines 196-201.
ToolStep(s, stub) ==
    LET x == execute_tool(s.action, stub)
    IN  [s EXCEPT !.tool_calls = @ + 1,
                  !.tool_result = x.result,
                  !.invoked = @ \o x.invoked,
                  !.prompt_history = @ \o Turn(s.llm_response, x.result),
                  !.iteration = @ + 1]

\* MUTANT of ToolBody: the loop runs one iteration too many.
ToolBody_OffByOne(s, stub) ==
    LET t == ToolStep(s, stub)
    IN  IF t.iteration <= MAX_ITERATIONS
        THEN [t EXCEPT !.pc = "call_llm"]
        ELSE Return(t, Incomplete, 204)

\* MUTANT of ToolBody: at the cap the last observation is returned as a
\* partial result.
ToolBody_PartialResult(s, stub) ==
    LET t == ToolStep(s, stub)
    IN  IF t.iteration < MAX_ITERATIONS
        THEN [t EXCEPT !.pc = "call_llm"]
        ELSE Return(t, t.tool_result, 204)

\* MUTANT of ToolBody: a tool error ends the run.
ToolBody_AbortsOnError(s, stub) ==
    LET t == ToolStep(s, stub)
    IN  IF Contains(t.tool_result, "error") THEN Return(t, t.tool_result, 196)
        ELSE IF t.iteration < MAX_ITERATIONS
        THEN [t EXCEPT !.pc = "call_llm"]
        ELSE Return(t, Incomplete, 204)

\* Lines 196-204: the tool call, the append, and the end of the for body.
ToolBody(s, stub) ==
    LET t == ToolStep(s, stub)
    IN  IF t.iteration < MAX_ITERATIONS
        THEN [t EXCEPT !.pc = "call_llm"]
        ELSE Return(t, Incomplete, 204)

\* The frame of a run that has not been started.
Idle(pid) ==
    [pc |-> "idle", patient_id |-> pid, prompt_history |-> <<>>, iteration |-> 0,
     prompt |-> <<>>, llm_response |-> None, action |-> <<>>, tool_result |-> None,
     returned |-> None, returned_at |-> 0, http |-> None,
     retries |-> 0, delay |-> 0, attempt |-> 0, attempts_made |-> 0,
     failures |-> <<>>, waits |-> <<>>,
     llm_calls |-> 0, tool_calls |-> 0, invoked |-> <<>>]

\* Lines 161-166.
Begin(s) == [s EXCEPT !.pc = "call_llm", !.prompt_history = Seed(s.patient_id)]

-----------------------------------------------------------------------------
(* The texts of the backend stub *)

ReAct(call) == <<"Thought:", "I need more information.", WS, "Action:", WS>> \o call

Call(tool, args) == <<tool, "(">> \o args \o <<")">>

OneId(n) == <<"patient_id=", IntTokens[n]>>

PlainFinal(payload) == <<"Final Answer:", WS, payload>>

OpenFences == {<<>>, <<Fence, "json", WS>>, <<Fence, WS>>}

CloseFences == {<<>>, <<WS, Fence>>}

Wrapped(payload, open, close) == <<"Final Answer:", WS>> \o open \o <<payload>> \o close

Payloads == JsonTexts \cup {"Here is the plan"}

MenuTools ==
    {ReAct(Call("prediction_tool", OneId(1))),
     ReAct(Call("notes_tool", OneId(2))),
     ReAct(Call("lookup_tool", OneId(1))),
     PlainFinal("{plan}"),
     PlainFinal("{plan")}

MenuInvalid ==
    {<<"Thought:", "I am not sure what to do.">>,
     ReAct(Call("explanation_tool", <<"patient_id=", "the patient">>)),
     ReAct(Call("prediction_tool", <<IntTokens[2], ",", WS, IntTokens[1]>>)),
     Wrapped("{plan}", <<Fence, "json", WS>>, <<WS, Fence>>),
     PlainFinal("{plan without risk_summary}")}

MenuFinal ==
    {ReAct(Call("explanation_tool", OneId(1)))}
        \cup {Wrapped(p, o, c) : p \in Payloads, o \in OpenFences, c \in CloseFences}
        \cup {<<"Final Answer:">>,
              ReAct(Call("notes_tool", OneId(1))) \o <<WS>> \o PlainFinal("{plan}"),
              <<"Final Answer:", WS, "{plan}", WS, "Final Answer:", WS, "{plan}">>}

MenuSmall == {ReAct(Call("prediction_tool", OneId(1))), PlainFinal("{plan}")}

-----------------------------------------------------------------------------
(* run_ingestion of data_processing/ingestion.py *)

\* The missing value of pandas.
NaN == "NaN"

\* The column names of the raw CSV file.
RawNames ==
    {<<"Patient", ".", "ID">>, <<"Age", WS>>, <<"age">>,
     <<"CHW", "_", "Notes">>, <<WS, "chw", ".", "notes">>, <<"CHW", WS, "Notes">>}

CellValues == {NaN, "Test note"}

\* str.lower() of a token.
Lower(t) ==
    CASE t = "Patient" -> "patient"
      [] t = "ID" -> "id"
      [] t = "Age" -> "age"
      [] t = "CHW" -> "chw"
      [] t = "Notes" -> "notes"
      [] OTHER -> t

\* MUTANT of Standardize: blanks become underscores instead of being stripped.
Standardize_ReplacesBlanks(col) ==
    [k \in DOMAIN col |-> IF Lower(col[k]) \in {".", WS} THEN "_" ELSE Lower(col[k])]

\* Line 72: col.lower().strip().replace(".", "_")
Standardize(col) ==
    LET lowered == [k \in DOMAIN col |-> Lower(col[k])]
        stripped == Strip(lowered)
    IN  [k \in DOMAIN stripped |-> IF stripped[k] = "." THEN "_" ELSE stripped[k]]

chw_notes == <<"chw", "_", "notes">>

\* A table: its column names in order, and per column its cells in row order.
Table(columns, cells) == [columns |-> columns, cells |-> cells]

NoTable == Table(<<>>, <<>>)

\* The raw tables of n columns: distinct names, NumRows rows.
RawColumns(n) == {c \in [1..n -> RawNames] : \A i, j \in 1..n : i # j => c[i] # c[j]}

RawCells(n) == [1..n -> [1..NumRows -> CellValues]]

\* Lines 75-77: fillna("") on every column named chw_notes.
FillNotes(df) ==
    Table(df.columns,
          [k \in DOMAIN df.cells |->
              IF df.columns[k] = chw_notes
              THEN [i \in DOMAIN df.cells[k] |->
                       IF df.cells[k][i] = NaN THEN "" ELSE df.cells[k][i]]
              ELSE df.cells[k]])

Unique(columns) == \A i, j \in DOMAIN columns : i # j => columns[i] # columns[j]

\* The frame of run_ingestion: raw_exists and raw are the raw file, df the
\* local table, out the table of the output file.
IngestFrame(pc, raw_exists, raw, df, out) ==
    [pc |-> pc, raw_exists |-> raw_exists, raw |-> raw, df |-> df, out |-> out]

NotIngesting == IngestFrame("off", FALSE, NoTable, NoTable, NoTable)

agent_vars == <<API_KEY, backend, tool_stub, server, ml_assets, requests, running, run>>

IngestInit ==
    /\ API_KEY = FALSE
    /\ tool_stub = "module"
    /\ backend = MenuSmall
    /\ requests = {}
    /\ server = "stopped"
    /\ ml_assets = {}
    /\ running = 0
    /\ run = [r \in Runs |-> Idle(1)]
    /\ \E n \in 1..MaxCols, e \in BOOLEAN :
          \E c \in RawColumns(n), v \in RawCells(n) :
              ingest = IngestFrame("start", e, Table(c, v), NoTable, NoTable)

\* Lines 65-71: the test for the raw file, and read_csv.
ReadCsv ==
    /\ ingest.pc = "start"
    /\ ingest' = IF ingest.raw_exists
                 THEN [ingest EXCEPT !.pc = "read", !.df = ingest.raw]
                 ELSE [ingest EXCEPT !.pc = "raised"]
    /\ UNCHANGED agent_vars

\* Line 72.
StandardizeColumns ==
    /\ ingest.pc = "read"
    /\ ingest' = [ingest EXCEPT
                    !.pc = "named",
                    !.df = Table([k \in DOMAIN ingest.df.columns |->
                                     Standardize(ingest.df.columns[k])],
                                 ingest.df.cells)]
    /\ UNCHANGED agent_vars

\* Lines 75-77.
FillMissingNotes ==
    /\ ingest.pc = "named"
    /\ ingest' = [ingest EXCEPT
                    !.pc = "filled",
                    !.df = IF \E k \in DOMAIN ingest.df.columns :
                                  ingest.df.columns[k] = chw_notes
                           THEN FillNotes(ingest.df) ELSE ingest.df]
    /\ UNCHANGED agent_vars

\* Line 80: to_parquet writes the table; a table with a repeated column name
\* is written or refused, as the parquet engine decides.
ToParquet ==
    /\ ingest.pc = "filled"
    /\ \/ ingest' = [ingest EXCEPT !.pc = "written", !.out = ingest.df]
       \/ /\ ~Unique(ingest.df.columns)
          /\ ingest' = [ingest EXCEPT !.pc = "raised"]
    /\ UNCHANGED agent_vars

IngestNext == ReadCsv \/ StandardizeColumns \/ FillMissingNotes \/ ToParquet

IngestSpec == IngestInit /\ [][IngestNext]_vars

-----------------------------------------------------------------------------
(* The state machine *)

AssetKeys == {"model", "imputer", "patient_data"}

\* What lifespan's try block can leave in ml_assets: all three keys, or the
\* keys stored before the statement that raised.
LoadOutcomes == {{}, {"model"}, {"model", "imputer"}, AssetKeys}

HttpError(status, detail) == [type |-> "http", status |-> status, detail |-> detail]

HttpOk(body) == [type |-> "http", status |-> 200, body |-> body]

InternalError == HttpError(500, <<"An internal server error occurred.">>)

\* The handler has answered: the frames of the request are gone.
Responded(s, response) == [Idle(s.patient_id) EXCEPT !.pc = "responded", !.http = response]

\* main.py lines 104-119: generate_plan up to the call of run_agent.
PlanEntry(s, assets) ==
    IF assets = {}
    THEN Responded(s, HttpError(503, <<"ML artifacts are not loaded.",
                                       "The service is unavailable.">>))
    ELSE IF ~(AssetKeys \subseteq assets) THEN Responded(s, InternalError)
    ELSE Begin(s)

\* main.py lines 121-128: generate_plan once run_agent has returned plan.
PlanExit(s) ==
    LET plan == s.returned
    IN  IF plan.type \notin {"dict", "list", "str"} THEN Responded(s, InternalError)
        ELSE IF Contains(plan, "error") THEN Responded(s, InternalError)
        ELSE Responded(s, HttpOk(plan))

Init ==
    /\ API_KEY \in BOOLEAN
    /\ tool_stub \in {"module", "raises"}
    /\ \/ backend \in {MenuTools, MenuInvalid, MenuFinal} /\ requests = {1}
       \/ backend = MenuSmall /\ requests = Runs
    /\ server = "starting"
    /\ ml_assets = {}
    /\ running = 0
    /\ run \in [Runs -> {Idle(p) : p \in Patients}]
    /\ \A r \in Runs \ requests : run[r] = Idle(1)
    /\ ingest = NotIngesting

\* main.py lines 46-77: lifespan up to its yield.
Startup ==
    /\ server = "starting"
    /\ \E loaded \in LoadOutcomes : ml_assets' = loaded
    /\ server' = "serving"
    /\ UNCHANGED <<env, running, run>>

\* main.py lines 79-80: lifespan after its yield.
Shutdown ==
    /\ server = "serving"
    /\ running = 0
    /\ ml_assets' = {}
    /\ server' = "stopped"
    /\ UNCHANGED <<env, running, run>>

\* main.py lines 103-119: a request arrives and generate_plan runs up to its
\* await of run_agent, which the event loop executes next.
GeneratePlan(r) ==
    /\ server # "starting"
    /\ running = 0
    /\ r \in requests
    /\ run[r].pc = "idle"
    /\ run' = [run EXCEPT ![r] = PlanEntry(@, ml_assets)]
    /\ running' = IF run'[r].pc = "responded" THEN 0 ELSE r
    /\ UNCHANGED <<env, server, ml_assets>>

\* Line 169: run_agent calls call_agent_llm.
CallAgentLLM(r) ==
    /\ running = r
    /\ run[r].pc = "call_llm"
    /\ run' = [run EXCEPT ![r] = CallEntry(@, API_KEY)]
    /\ UNCHANGED <<env, server, ml_assets, running>>

\* Lines 88-111: one backend attempt and what the backend answers.
Attempt(r) ==
    /\ running = r
    /\ run[r].pc = "attempt"
    /\ \E out \in BackendOutcomes(backend) :
          run' = [run EXCEPT ![r] = AttemptBody(@, out)]
    /\ UNCHANGED <<env, server, ml_assets, running>>

\* Lines 101-102, 108-109: the backoff wait, a time.sleep on the event loop's
\* thread.
Sleep(r) ==
    /\ running = r
    /\ run[r].pc = "sleep"
    /\ run' = [run EXCEPT ![r] = SleepBody(@)]
    /\ UNCHANGED <<env, server, ml_assets, running>>

\* Lines 171-195.
HandleResponse(r) ==
    /\ running = r
    /\ run[r].pc = "response"
    /\ run' = [run EXCEPT ![r] = ResponseBody(@)]
    /\ UNCHANGED <<env, server, ml_assets, running>>

\* MUTANT of ExecuteTool: the iteration counter is shared by all runs.
ExecuteTool_SharedCounter(r) ==
    /\ running = r
    /\ run[r].pc = "tool"
    /\ run' = [q \in Runs |->
                  IF q = r THEN ToolBody(run[r], tool_stub)
                  ELSE [run[q] EXCEPT !.iteration = ToolBody(run[r], tool_stub).iteration]]
    /\ UNCHANGED <<env, server, ml_assets, running>>

\* Lines 196-204.
ExecuteTool(r) ==
    /\ running = r
    /\ run[r].pc = "tool"
    /\ run' = [run EXCEPT ![r] = ToolBody(@, tool_stub)]
    /\ UNCHANGED <<env, server, ml_assets, running>>

\* main.py lines 121-128: run_agent has returned and generate_plan answers.
Respond(r) ==
    /\ running = r
    /\ run[r].pc = "done"
    /\ run' = [run EXCEPT ![r] = PlanExit(@)]
    /\ running' = 0
    /\ UNCHANGED <<env, server, ml_assets>>

Next ==
    \/ Startup
    \/ Shutdown
    \/ \E r \in Runs :
          \/ GeneratePlan(r)
          \/ CallAgentLLM(r)
          \/ Attempt(r)
          \/ Sleep(r)
          \/ HandleResponse(r)
          \/ ExecuteTool(r)
          \/ Respond(r)

Spec == Init /\ [][Next]_vars

-----------------------------------------------------------------------------
(* Properties *)

Active(s) == s.pc \in {"call_llm", "attempt", "sleep", "response", "tool"}

Stepped(r) == run'[r] # run[r]

AgentStep(r) ==
    CallAgentLLM(r) \/ Attempt(r) \/ Sleep(r) \/ HandleResponse(r) \/ ExecuteTool(r)

\* An upper bound of the steps run_agent still takes from frame s.
Rank(s) ==
    CASE s.pc = "call_llm" -> 10 * (MAX_ITERATIONS - s.iteration) + 9
      [] s.pc = "attempt" -> 10 * (MAX_ITERATIONS - s.iteration) + 8 - 2 * s.attempt
      [] s.pc = "sleep" -> 10 * (MAX_ITERATIONS - s.iteration) + 7 - 2 * s.attempt
      [] s.pc = "response" -> 10 * (MAX_ITERATIONS - s.iteration) + 2
      [] s.pc = "tool" -> 10 * (MAX_ITERATIONS - s.iteration) + 1
      [] OTHER -> 0

\* The frames one step of run_agent or of call_agent_llm leads to from s.
Successors(s) ==
    CASE s.pc = "call_llm" -> {CallEntry(s, API_KEY)}
      [] s.pc = "attempt" -> {AttemptBody(s, out) : out \in BackendOutcomes(backend)}
      [] s.pc = "sleep" -> {SleepBody(s)}
      [] s.pc = "response" -> {ResponseBody(s)}
      [] s.pc = "tool" -> {ToolBody(s, tool_stub)}
      [] OTHER -> {}

\* C1: run_agent terminates after at most MAX_ITERATIONS iterations: a run
\* never makes more than MAX_ITERATIONS calls of call_agent_llm or of
\* execute_tool, a run in progress is the one the event loop executes and has
\* a next step, every step lowers a bound on the steps that remain, and a run
\* that has ended has returned a value.
C1_Terminates ==
    \A r \in Runs :
        /\ run[r].iteration <= MAX_ITERATIONS
        /\ run[r].llm_calls <= MAX_ITERATIONS
        /\ run[r].tool_calls <= MAX_ITERATIONS
        /\ Active(run[r]) =>
              /\ running = r
              /\ Successors(run[r]) # {}
              /\ \A f \in Successors(run[r]) : 0 <= Rank(f) /\ Rank(f) < Rank(run[r])
        /\ run[r].pc = "done" => run[r].returned # None

C1_Witness ==
    \E r \in Runs :
        /\ run[r].pc = "done"
        /\ run[r].llm_calls = MAX_ITERATIONS
        /\ run[r].tool_calls = MAX_ITERATIONS

\* C2: when call_agent_llm has returned an error value, run_agent's next step
\* returns exactly that value: no tool is dispatched, the transcript is left
\* as it is, and afterwards the run makes no backend call and no tool call.
C2_Step ==
    \A r \in Runs :
        /\ run[r].pc = "response" /\ run[r].llm_response.type = "dict" /\ Stepped(r) =>
              /\ run'[r].pc = "done"
              /\ run'[r].returned = run[r].llm_response
              /\ run'[r].iteration = run[r].iteration
              /\ run'[r].prompt_history = run[r].prompt_history
              /\ run'[r].tool_calls = run[r].tool_calls
              /\ run'[r].invoked = run[r].invoked
              /\ run'[r].llm_calls = run[r].llm_calls
        /\ run[r].pc = "done" /\ run[r].llm_response.type = "dict" /\ Stepped(r) =>
              run'[r].pc = "responded"

C2_BackendErrorReturned == [][C2_Step]_vars

C2_Witness ==
    \E r \in Runs :
        /\ run[r].pc = "done"
        /\ run[r].iteration = MAX_ITERATIONS - 1
        /\ IsError(run[r].llm_response)
        /\ run[r].returned = run[r].llm_response

\* C3: a run whose last backend response is a text without the terminal
\* marker ends only at the cap: it has made exactly MAX_ITERATIONS
\* iterations, each with one call of call_agent_llm and one of execute_tool,
\* and returns {"error": "Agent failed to complete."}.
C3_NoMarkerEndsAtCap ==
    \A r \in Runs :
        (/\ run[r].pc = "done"
         /\ run[r].llm_response.type = "str"
         /\ ~Contains(run[r].llm_response, "Final Answer:")) =>
            /\ run[r].iteration = MAX_ITERATIONS
            /\ run[r].llm_calls = MAX_ITERATIONS
            /\ run[r].tool_calls = MAX_ITERATIONS
            /\ Len(run[r].prompt_history) = 1 + 2 * MAX_ITERATIONS
            /\ run[r].returned = Incomplete

C3_Witness ==
    \E r \in Runs :
        /\ run[r].pc = "done"
        /\ run[r].returned_at = 204
        /\ run[r].returned = Incomplete
        /\ \A k \in 1..MAX_ITERATIONS :
              /\ run[r].prompt_history[2 * k].type = "line"
              /\ "Final Answer:" \notin
                    {run[r].prompt_history[2 * k].toks[j] :
                        j \in DOMAIN run[r].prompt_history[2 * k].toks}

\* The action names no registered tool.
Unregistered(action) == ~(Len(FuncName(action)) = 1 /\ FuncName(action)[1] \in ToolNames)

\* C4: for an action whose tool name is not registered, execute_tool invokes
\* no tool and returns a result with an error field, and run_agent appends
\* the response and the observation and goes on: to the next iteration, or to
\* the return at the cap when this was the last one.
C4_Step ==
    \A r \in Runs :
        run[r].pc = "tool" /\ Unregistered(run[r].action) /\ Stepped(r) =>
            /\ run'[r].invoked = run[r].invoked
            /\ IsError(run'[r].tool_result)
            /\ run'[r].tool_calls = run[r].tool_calls + 1
            /\ run'[r].prompt_history =
                  run[r].prompt_history \o Turn(run[r].llm_response, run'[r].tool_result)
            /\ \/ run'[r].pc = "call_llm" /\ run'[r].iteration < MAX_ITERATIONS
               \/ run'[r].returned_at = 204 /\ run'[r].iteration = MAX_ITERATIONS

C4_UnknownToolContinues == [][C4_Step]_vars

C4_Witness ==
    \E r \in Runs :
        /\ run[r].pc = "call_llm"
        /\ run[r].iteration >= 1
        /\ run[r].invoked = <<>>
        /\ run[r].tool_result = ToolError(<<"Unknown tool specified:", "lookup_tool">>)

\* C5: no tool result ends a run: the step that executes the tool leads to
\* the next iteration, or at the cap to the return of the cap's own error; a
\* run ends only on a backend response or at the cap; and a final answer that
\* decodes is returned as the plan whatever the tool results before it.
C5_Step ==
    \A r \in Runs :
        /\ run[r].pc = "tool" /\ Stepped(r) =>
              \/ run'[r].pc = "call_llm" /\ run'[r].returned = None
              \/ /\ run'[r].pc = "done"
                 /\ run'[r].iteration = MAX_ITERATIONS
                 /\ run'[r].returned = Incomplete
        /\ run'[r].pc = "done" /\ run[r].pc # "done" =>
              \/ run[r].pc = "response"
              \/ run[r].pc = "tool" /\ run'[r].returned_at = 204

C5_PlanAfterToolError ==
    \A r \in Runs :
        run[r].pc = "done" /\ run[r].llm_response = Str(PlainFinal("{plan}")) =>
            run[r].returned = JsonValue("{plan}") /\ run[r].returned_at = 182

C5_ToolNeverTerminates == []C5_PlanAfterToolError /\ [][C5_Step]_vars

C5_Witness ==
    \E r \in Runs :
        /\ run[r].pc = "done"
        /\ run[r].returned_at = 182
        /\ run[r].returned = JsonValue("{plan}")
        /\ IsError(run[r].tool_result)

\* Final answers whose text after the marker is no JSON text.
UndecodableFinals ==
    {Wrapped("Here is the plan", o, c) : o \in OpenFences, c \in CloseFences}
        \cup {<<"Final Answer:">>, PlainFinal("{plan")}

\* C6: a response with the terminal marker whose text does not decode ends
\* the run on that iteration with the parse error: the run is never past that
\* response (no retry, no tool call, no further backend call), and nothing was
\* appended for it.
C6_ParseFailureIsTerminal ==
    \A r \in Runs :
        (run[r].llm_response.type = "str" /\ run[r].llm_response.toks \in UndecodableFinals) =>
            /\ run[r].pc \in {"response", "done"}
            /\ run[r].llm_calls = run[r].iteration + 1
            /\ run[r].tool_calls = run[r].iteration
            /\ Len(run[r].prompt_history) = 1 + 2 * run[r].iteration
            /\ run[r].pc = "done" =>
                  run[r].returned = ParseError /\ run[r].returned_at = 185

C6_Witness ==
    \E r \in Runs :
        /\ run[r].pc = "done"
        /\ run[r].iteration >= 1
        /\ run[r].llm_response.type = "str"
        /\ run[r].llm_response.toks \in UndecodableFinals
        /\ run[r].returned = ParseError

\* The FinalPlan shape of the spec: the four fields, a score in [0, 1],
\* priorities among High, Medium and Low.
IsFinalPlan(v) ==
    /\ v.type = "dict"
    /\ PlanKeys \subseteq v.keys
    /\ v.score \in 0..100
    /\ v.priorities \subseteq Priorities

\* C7: a final answer whose payload decodes but has not the FinalPlan shape
\* is a parse failure: run_agent returns the parse error, never that value.
C7_ShapeIsChecked ==
    \A r \in Runs : \A p \in JsonTexts :
        (/\ run[r].pc = "done"
         /\ run[r].llm_response = Str(PlainFinal(p))
         /\ ~IsFinalPlan(JsonValue(p))) =>
            run[r].returned = ParseError

\* C8: for every decodable payload, bare or wrapped in an opening fence (with
\* or without the json tag) and a closing fence, the plan returned is the
\* decoding of the payload alone.
C8_FenceIndependent ==
    \A r \in Runs : \A p \in JsonTexts : \A o \in OpenFences : \A c \in CloseFences :
        (run[r].pc = "done" /\ run[r].llm_response = Str(Wrapped(p, o, c))) =>
            run[r].returned = JsonValue(p)

\* C9: a run produces one outcome, a plan or an error value, exactly when it
\* ends; after it the run only hands the outcome to its caller; and an
\* outcome that is no error value comes from the return of the decoded final
\* answer, on a response that holds the terminal marker and a JSON text.
C9_Outcome ==
    \A r \in Runs :
        /\ run[r].returned # None <=> run[r].pc = "done"
        /\ run[r].pc = "done" =>
              /\ run[r].returned_at \in {182, 185, 189, 204}
              /\ run[r].returned_at = 182 \/ IsError(run[r].returned)
              /\ ~IsError(run[r].returned) =>
                    /\ run[r].returned_at = 182
                    /\ run[r].llm_response.type = "str"
                    /\ Contains(run[r].llm_response, "Final Answer:")
                    /\ \E p \in JsonTexts :
                          /\ Contains(run[r].llm_response, p)
                          /\ run[r].returned = JsonValue(p)

C9_Step ==
    \A r \in Runs :
        run[r].pc = "done" /\ Stepped(r) =>
            run'[r].pc = "responded" /\ run'[r].http.type = "http"

C9_ExactlyOneOutcome == []C9_Outcome /\ [][C9_Step]_vars

C9_Witness ==
    \E r \in Runs :
        /\ run[r].pc = "done"
        /\ run[r].returned_at = 182
        /\ ~IsError(run[r].returned)
        /\ run[r].iteration >= 1

\* C10: one call of call_agent_llm makes at most retries (3) backend
\* attempts; it returns a text or an error value and no exception leaves it;
\* and when every attempt of the budget failed, whatever the kinds of the
\* failures, it returns an error value.
C10_RetriesBounded ==
    \A r \in Runs :
        /\ run[r].pc \in {"idle", "call_llm", "attempt", "sleep", "response", "tool",
                          "done", "responded"}
        /\ run[r].pc \in {"attempt", "sleep", "response"} =>
              /\ run[r].retries = DefaultRetries
              /\ run[r].attempts_made <= run[r].retries
              /\ Len(run[r].failures) <= run[r].attempts_made
        /\ run[r].pc \in {"attempt", "sleep"} => ENABLED AgentStep(r)
        /\ run[r].pc = "response" =>
              /\ run[r].llm_response.type = "str" \/ IsError(run[r].llm_response)
              /\ Len(run[r].failures) = run[r].retries => IsError(run[r].llm_response)

C10_Witness ==
    \E r \in Runs :
        /\ run[r].pc = "response"
        /\ run[r].failures = <<"exception", "rate_limit", "exception">>
        /\ IsError(run[r].llm_response)

\* The error value of line 93.
Blocked == ErrorDict(<<"Response was blocked by safety settings.">>)

\* C11: a backend attempt whose response has no candidates makes
\* call_agent_llm return the safety-filter error at once, on whichever attempt
\* it happens: the attempt is counted, no wait is made and no further attempt
\* follows, and run_agent returns that error without another backend call.
C11_BlockedNow ==
    \A r \in Runs :
        run[r].pc = "attempt" =>
            LET f == AttemptBody(run[r], [kind |-> "blocked"])
            IN  /\ f.pc = "response"
                /\ f.llm_response = Blocked
                /\ f.waits = run[r].waits
                /\ f.attempts_made = run[r].attempts_made + 1
                /\ f.attempt = run[r].attempt

C11_Step ==
    \A r \in Runs :
        /\ run'[r].pc = "response" /\ run'[r].llm_response = Blocked /\ Stepped(r) =>
              /\ run[r].pc = "attempt"
              /\ run'[r].waits = run[r].waits
              /\ run'[r].attempts_made = run[r].attempts_made + 1
        /\ run[r].pc = "response" /\ run[r].llm_response = Blocked /\ Stepped(r) =>
              /\ run'[r].pc = "done"
              /\ run'[r].returned = Blocked
              /\ run'[r].llm_calls = run[r].llm_calls

C11_SafetyBlockIsTerminal == []C11_BlockedNow /\ [][C11_Step]_vars

C11_Witness ==
    \E r \in Runs :
        /\ run[r].pc = "response"
        /\ run[r].llm_response = Blocked
        /\ run[r].attempts_made = 2
        /\ run[r].attempts_made < run[r].retries
        /\ run[r].waits = <<DefaultDelay>>

\* C12: within one call of call_agent_llm the k-th wait lasts
\* DefaultDelay * 2^(k-1), whatever failures came before it, the delay held
\* for the next wait is DefaultDelay * 2^(number of waits made), and every
\* call of call_agent_llm starts with the initial delay and no wait made.
C12_Doubling ==
    \A r \in Runs :
        /\ \A k \in 1..Len(run[r].waits) : run[r].waits[k] = DefaultDelay * 2^(k - 1)
        /\ run[r].pc \in {"attempt", "sleep", "response"} =>
              run[r].delay = DefaultDelay * 2^Len(run[r].waits)
        /\ run[r].pc = "attempt" /\ run[r].attempts_made = 0 =>
              run[r].delay = DefaultDelay /\ run[r].waits = <<>>

C12_Step ==
    \A r \in Runs :
        /\ run[r].pc = "call_llm" /\ Stepped(r) =>
              run'[r].delay = DefaultDelay /\ run'[r].waits = <<>>
        /\ run[r].pc = "sleep" /\ Stepped(r) =>
              /\ run'[r].waits = Append(run[r].waits, run[r].delay)
              /\ run'[r].delay = 2 * run[r].delay

C12_DelayDoubles == []C12_Doubling /\ [][C12_Step]_vars

C12_Witness ==
    \E r \in Runs :
        /\ run[r].llm_calls >= 2
        /\ run[r].failures = <<"exception", "rate_limit", "rate_limit">>
        /\ run[r].waits = <<5, 10, 20>>

\* C13: rate-limit failures and other failures wait alike: a call that has
\* made n attempts has made n - 1 waits when it returns, and a wait is made
\* only when an attempt of the budget is left to follow it.
C13_SameBackoff ==
    \A r \in Runs :
        /\ run[r].pc = "response" /\ run[r].attempts_made >= 1 =>
              Len(run[r].waits) = run[r].attempts_made - 1
        /\ run[r].pc = "sleep" => run[r].attempt < run[r].retries - 1

\* C14: execute_tool hands run_agent a dictionary for every action and every
\* behaviour of the tool, never an exception: the step that executes the tool
\* leads to the next iteration or to the return at the cap, and when the tool
\* that was invoked raised, the dictionary is the error result that carries
\* the exception's message.
C14_NeverPropagates ==
    \A r \in Runs :
        /\ run[r].tool_result # None => run[r].tool_result.type = "dict"
        /\ run[r].pc = "tool" =>
              LET x == execute_tool(run[r].action, tool_stub)
              IN  /\ x.result.type = "dict"
                  /\ (tool_stub = "raises" /\ x.invoked # <<>>) =>
                        x.result = ToolError(ToolRaisedText)
                  /\ ToolBody(run[r], tool_stub).pc \in {"call_llm", "done"}
                  /\ ToolBody(run[r], tool_stub).tool_result = x.result

C14_Witness ==
    \E r \in Runs :
        /\ tool_stub = "raises"
        /\ run[r].pc = "call_llm"
        /\ run[r].invoked # <<>>
        /\ run[r].tool_result = ToolError(ToolRaisedText)

\* The integers between the parentheses of an action.
IntsInParens(action) ==
    LET p == Find(action, "(", 1)
    IN  IF p = 0 THEN {}
        ELSE {k \in (p + 1)..Len(action) :
                 IsIntToken(action[k]) /\ Find(action, ")", k + 1) # 0}

\* C15: an action whose parentheses hold no integer, or more than one, is an
\* invalid request: execute_tool invokes no tool and returns an error result.
C15_ExactlyOneInteger ==
    \A r \in Runs :
        (run[r].pc = "tool" /\ Cardinality(IntsInParens(run[r].action)) # 1) =>
            LET x == execute_tool(run[r].action, tool_stub)
            IN  x.invoked = <<>> /\ IsError(x.result)

\* C16: a response with neither the terminal marker nor an Action: marker
\* gives the empty action; for the empty action execute_tool invokes no tool
\* and returns an error result, which run_agent appends with the response
\* before going on to the next iteration, or to the return at the cap.
C16_Step ==
    \A r \in Runs :
        /\ (/\ run[r].pc = "response"
            /\ run[r].llm_response.type = "str"
            /\ ~Contains(run[r].llm_response, "Final Answer:")
            /\ ~Contains(run[r].llm_response, "Action:")
            /\ Stepped(r)) =>
              run'[r].pc = "tool" /\ run'[r].action = <<>>
        /\ (run[r].pc = "tool" /\ run[r].action = <<>> /\ Stepped(r)) =>
              /\ run'[r].invoked = run[r].invoked
              /\ IsError(run'[r].tool_result)
              /\ run'[r].prompt_history =
                    run[r].prompt_history \o Turn(run[r].llm_response, run'[r].tool_result)
              /\ \/ /\ run'[r].pc = "call_llm"
                    /\ run'[r].iteration = run[r].iteration + 1
                    /\ run'[r].iteration < MAX_ITERATIONS
                 \/ run'[r].returned_at = 204 /\ run'[r].iteration = MAX_ITERATIONS

C16_NoActionIsInvalid == [][C16_Step]_vars

C16_Witness ==
    \E r \in Runs :
        /\ run[r].pc = "call_llm"
        /\ run[r].iteration >= 1
        /\ run[r].action = <<>>
        /\ run[r].invoked = <<>>
        /\ run[r].tool_result =
              ToolError(<<"Could not find a valid integer patient ID in action:">>)
        /\ ~Contains(run[r].llm_response, "Action:")

IsPrefix(a, b) == Len(a) <= Len(b) /\ SubSeq(b, 1, Len(a)) = a

\* C17: the transcript of a run is only appended to and is bounded: every
\* step of run_agent leaves the previous transcript as a prefix of the new
\* one, and a run that has made i iterations holds the seed and 2 * i
\* segments, never more than 2 * MAX_ITERATIONS.
C17_Bounded ==
    \A r \in Runs :
        /\ Len(run[r].prompt_history) <= 1 + 2 * MAX_ITERATIONS
        /\ run[r].pc \notin {"idle", "responded"} =>
              /\ Len(run[r].prompt_history) = 1 + 2 * run[r].iteration
              /\ SubSeq(run[r].prompt_history, 1, 1) = Seed(run[r].patient_id)

C17_Step ==
    \A r \in Runs :
        run'[r].pc # "responded" =>
            /\ IsPrefix(run[r].prompt_history, run'[r].prompt_history)
            /\ Len(run'[r].prompt_history) - Len(run[r].prompt_history) \in {0, 1, 2}

C17_AppendOnly == []C17_Bounded /\ [][C17_Step]_vars

C17_Witness ==
    \E r \in Runs :
        /\ run[r].pc = "done"
        /\ Len(run[r].prompt_history) = 1 + 2 * MAX_ITERATIONS
        /\ run[r].prompt_history[2] # run[r].prompt_history[4]

\* C18: the input of the backend call of iteration k is the transcript: the
\* seed of the run's patient, then for each of the iterations 1..k-1 the raw
\* response followed by the observation that holds that iteration's tool
\* result; the retries of a call and a terminal iteration append nothing.
C18_Input ==
    \A r \in Runs :
        run[r].pc \in {"attempt", "sleep", "response"} =>
            /\ run[r].prompt = run[r].prompt_history
            /\ run[r].llm_calls = run[r].iteration + 1
            /\ Len(run[r].prompt) = 1 + 2 * run[r].iteration
            /\ run[r].prompt[1].type = "seed"
            /\ run[r].prompt[1].toks[3] = IntTokens[run[r].patient_id]
            /\ \A k \in 1..run[r].iteration :
                  /\ run[r].prompt[2 * k].type = "line"
                  /\ run[r].prompt[2 * k + 1].type = "observation"

C18_Step ==
    \A r \in Runs :
        /\ run[r].pc = "call_llm" /\ Stepped(r) =>
              /\ run'[r].prompt = run[r].prompt_history
              /\ run'[r].prompt_history = run[r].prompt_history
        /\ run[r].pc \in {"attempt", "sleep", "response"} /\ run'[r].pc # "responded" =>
              /\ run'[r].prompt_history = run[r].prompt_history
              /\ run'[r].prompt = run[r].prompt
        /\ run[r].pc = "tool" /\ Stepped(r) =>
              LET n == Len(run[r].prompt_history)
              IN  /\ Len(run'[r].prompt_history) = n + 2
                  /\ SubSeq(run'[r].prompt_history, 1, n) = run[r].prompt_history
                  /\ run'[r].prompt_history[n + 1] =
                        [type |-> "line", toks |-> run[r].llm_response.toks]
                  /\ run'[r].prompt_history[n + 2] =
                        [type |-> "observation",
                         json_dumps |-> execute_tool(run[r].action, tool_stub).result]
                  /\ run'[r].tool_result = execute_tool(run[r].action, tool_stub).result

C18_InputIsTranscript == []C18_Input /\ [][C18_Step]_vars

C18_Witness ==
    \E r \in Runs :
        /\ run[r].pc = "done"
        /\ run[r].returned_at \in {182, 185, 189}
        /\ run[r].iteration = 2
        /\ run[r].prompt = run[r].prompt_history
        /\ Len(run[r].prompt) = 5
        /\ run[r].prompt[2] # run[r].prompt[4]
        /\ run[r].prompt[3] # run[r].prompt[5]

\* The order of the positions of one run.
Order ==
    {<<"idle", "call_llm">>, <<"idle", "responded">>,
     <<"call_llm", "attempt">>, <<"call_llm", "response">>,
     <<"attempt", "sleep">>, <<"attempt", "response">>,
     <<"sleep", "attempt">>, <<"sleep", "response">>,
     <<"response", "tool">>, <<"response", "done">>,
     <<"tool", "call_llm">>, <<"tool", "done">>,
     <<"done", "responded">>}

\* C19: the events of one run are sequential: a backend call starts only when
\* the calls and the tool dispatches of all earlier iterations are complete, a
\* tool dispatch starts only when the backend call of its iteration has
\* returned a text and its frame, retries and waits included, is gone, and
\* every step moves the run to the next position of that order.
C19_Counts ==
    \A r \in Runs :
        /\ run[r].pc = "call_llm" =>
              run[r].llm_calls = run[r].iteration /\ run[r].tool_calls = run[r].iteration
        /\ run[r].pc \in {"attempt", "sleep", "response", "tool"} =>
              /\ run[r].llm_calls = run[r].iteration + 1
              /\ run[r].tool_calls = run[r].iteration
        /\ run[r].pc = "tool" =>
              /\ run[r].llm_response.type = "str"
              /\ run[r].retries = 0
              /\ run[r].waits = <<>>

C19_Step == \A r \in Runs : Stepped(r) => <<run[r].pc, run'[r].pc>> \in Order

C19_Sequential == []C19_Counts /\ [][C19_Step]_vars

C19_Witness ==
    \E r \in Runs :
        /\ run[r].pc = "sleep"
        /\ run[r].iteration = 2
        /\ run[r].llm_calls = 3
        /\ run[r].tool_calls = 2
        /\ run[r].waits = <<DefaultDelay>>

\* C20: while one run is in a backoff wait, another request of the same
\* process, waiting to start or in progress, can take a step.
C20_WaitDoesNotBlock ==
    \A r \in requests : \A q \in requests \ {r} :
        (/\ run[r].pc = "sleep"
         /\ server = "serving"
         /\ run[q].pc \notin {"responded"}) =>
            \/ ENABLED GeneratePlan(q)
            \/ ENABLED CallAgentLLM(q)
            \/ ENABLED Attempt(q)
            \/ ENABLED Sleep(q)
            \/ ENABLED ExecuteTool(q)
            \/ ENABLED Respond(q)
            \/ run[q].pc = "response" /\ running = q

\* C21: runs share nothing but the injected dependencies: a step of one run
\* leaves the frame of every other run as it is, transcript, iteration
\* counter and backoff delay included, and a step of run_agent, of
\* execute_tool or of call_agent_llm leaves the shared artifacts and the
\* tools' behaviour as they are.
C21_Step ==
    \A r \in Runs :
        Stepped(r) =>
            /\ \A q \in Runs \ {r} :
                  /\ run'[q] = run[q]
                  /\ run'[q].prompt_history = run[q].prompt_history
                  /\ run'[q].iteration = run[q].iteration
                  /\ run'[q].delay = run[q].delay
            /\ ml_assets' = ml_assets
            /\ tool_stub' = tool_stub
            /\ backend' = backend

C21_RunsShareNothing == [][C21_Step]_vars

C21_Witness ==
    \E r \in Runs : \E q \in Runs \ {r} :
        /\ run[q].pc = "responded"
        /\ run[q].http.status = 200
        /\ run[r].pc = "sleep"
        /\ run[r].iteration >= 1
        /\ run[r].delay = 2 * DefaultDelay

\* C22: generate_plan answers 500 for every result of run_agent with an
\* "error" key and returns every other result as the success response.
C22_ErrorIffFailure_Step ==
    \A r \in Runs :
        run[r].pc = "done" /\ Stepped(r) =>
            /\ run'[r].pc = "responded"
            /\ IsError(run[r].returned) => run'[r].http.status = 500
            /\ ~IsError(run[r].returned) => run'[r].http = HttpOk(run[r].returned)

C22_ErrorIffFailure == [][C22_ErrorIffFailure_Step]_vars

\* C24: a response that holds the terminal marker is handled as the final
\* answer, also when it holds Thought: and Action: markers: the run ends on
\* it with the decoded plan or the parse error, no tool is dispatched and no
\* action is extracted; a tool is dispatched only for a response without the
\* marker.
C24_Step ==
    \A r \in Runs :
        /\ (/\ run[r].pc = "response"
            /\ run[r].llm_response.type = "str"
            /\ Contains(run[r].llm_response, "Final Answer:")
            /\ Stepped(r)) =>
              /\ run'[r].pc = "done"
              /\ run'[r].returned_at \in {182, 185}
              /\ run'[r].action = run[r].action
              /\ run'[r].tool_calls = run[r].tool_calls
              /\ run'[r].invoked = run[r].invoked
              /\ run'[r].prompt_history = run[r].prompt_history
        /\ run'[r].pc = "tool" /\ Stepped(r) =>
              /\ run[r].pc = "response"
              /\ ~Contains(run[r].llm_response, "Final Answer:")

C24_MarkerTakesPrecedence == [][C24_Step]_vars

C24_Witness ==
    \E r \in Runs :
        /\ run[r].pc = "done"
        /\ run[r].returned_at = 182
        /\ Contains(run[r].llm_response, "Final Answer:")
        /\ Contains(run[r].llm_response, "Action:")
        /\ Contains(run[r].llm_response, "Thought:")
        /\ run[r].tool_calls = run[r].iteration
        /\ run[r].invoked = <<>>

\* C25: for an action that names a registered tool and holds an integer n,
\* execute_tool invokes that tool once with patient_id = n and returns the
\* tool's own result, Success or Error payload, unchanged.
C25_ToolResultUnchanged ==
    \A r \in Runs :
        (/\ run[r].pc = "tool"
         /\ ~Unregistered(run[r].action)
         /\ MatchInt(run[r].action) # 0) =>
            LET x == execute_tool(run[r].action, tool_stub)
                n == IntOf(run[r].action[MatchInt(run[r].action)])
            IN  /\ x.invoked = <<[tool |-> FuncName(run[r].action)[1], patient_id |-> n]>>
                /\ x.result = ToolResult(FuncName(run[r].action)[1], n)

\* C26: every tool invocation of a run uses the run's own patient_id as its
\* patient argument.
C26_OwnPatientOnly ==
    \A r \in Runs :
        \A k \in DOMAIN run[r].invoked : run[r].invoked[k].patient_id = run[r].patient_id

\* The frame of a call whose first attempt has just succeeded with the
\* response of frame s.
FirstTry(s) ==
    [s EXCEPT !.attempt = 0, !.attempts_made = 1, !.failures = <<>>, !.waits = <<>>,
              !.delay = DefaultDelay]

\* C27: failures recovered within the budget leave no trace: on any attempt a
\* backend text is returned as it is, and from a call that returned a text
\* after failed attempts run_agent goes on exactly as from a call whose first
\* attempt returned that text, so transcript and outcome are the same.
C27_SameAsFirstTry ==
    \A r \in Runs :
        /\ run[r].pc = "attempt" =>
              \A t \in backend :
                  LET f == AttemptBody(run[r], [kind |-> "text", toks |-> t])
                  IN  /\ f.pc = "response"
                      /\ f.llm_response = Str(t)
                      /\ FirstTry(f) =
                            AttemptBody([FirstTry(run[r]) EXCEPT !.attempts_made = 0],
                                        [kind |-> "text", toks |-> t])
        /\ run[r].pc = "response" /\ run[r].llm_response.type = "str" =>
              ResponseBody(run[r]) = ResponseBody(FirstTry(run[r]))
        /\ run[r].pc \in {"call_llm", "tool", "done"} =>
              /\ run[r].failures = <<>>
              /\ run[r].waits = <<>>
              /\ run[r].delay = 0

C27_Witness ==
    \E r \in Runs :
        /\ run[r].pc = "response"
        /\ run[r].llm_response.type = "str"
        /\ run[r].failures = <<"rate_limit", "exception">>
        /\ run[r].waits = <<5, 10>>
        /\ run[r].iteration >= 1

\* The error value of line 85.
NoKey == ErrorDict(<<"Gemini API key is not configured.">>)

\* C28: without an API key call_agent_llm returns its error value with no
\* backend attempt and no wait, and run_agent returns that value on its first
\* iteration: one call of call_agent_llm, no tool dispatch, nothing appended.
C28_NoKeyNoAttempt ==
    ~API_KEY =>
        \A r \in Runs :
            /\ run[r].pc \notin {"attempt", "sleep", "tool"}
            /\ run[r].attempts_made = 0
            /\ run[r].waits = <<>>
            /\ run[r].tool_calls = 0
            /\ run[r].invoked = <<>>
            /\ run[r].iteration = 0
            /\ run[r].llm_calls <= 1
            /\ run[r].pc = "response" => run[r].llm_response = NoKey
            /\ run[r].pc = "done" =>
                  /\ run[r].returned = NoKey
                  /\ run[r].returned_at = 189
                  /\ run[r].llm_calls = 1
                  /\ run[r].prompt_history = Seed(run[r].patient_id)

C28_Witness ==
    \E r \in Runs :
        /\ ~API_KEY
        /\ run[r].pc = "done"
        /\ run[r].returned = NoKey
        /\ run[r].llm_calls = 1

\* C29: when run_agent returned an error value, the 500 response of
\* generate_plan carries that value's own message as its detail.
C29_Step ==
    \A r \in Runs :
        (run[r].pc = "done" /\ IsError(run[r].returned) /\ Stepped(r)) =>
            run'[r].http = HttpError(500, run[r].returned.error)

C29_OwnMessage == [][C29_Step]_vars

\* C30: a run is started only when all three artifacts are loaded: with any
\* artifact missing, after a failed load or after shutdown, a request is
\* answered 503 and run_agent is not called.
C30_Step ==
    \A r \in Runs :
        (run[r].pc = "idle" /\ ~(AssetKeys \subseteq ml_assets) /\ Stepped(r)) =>
            /\ run'[r].pc = "responded"
            /\ run'[r].http.status = 503

C30_AllOrUnavailable == [][C30_Step]_vars

\* What the column names of the raw files become.
ExpectedName(col) ==
    CASE col = <<"Patient", ".", "ID">> -> <<"patient", "_", "id">>
      [] col = <<"Age", WS>> -> <<"age">>
      [] col = <<"age">> -> <<"age">>
      [] col = <<"CHW", "_", "Notes">> -> <<"chw", "_", "notes">>
      [] col = <<WS, "chw", ".", "notes">> -> <<"chw", "_", "notes">>
      [] col = <<"CHW", WS, "Notes">> -> <<"chw", WS, "notes">>

\* C23: the table run_ingestion writes has, in the order of the raw file,
\* the raw column names lowercased, stripped of surrounding blanks and with
\* "_" for every "."; in its chw_notes columns every missing value is the
\* empty string, and every other cell is the raw one.
C23_IngestedTable ==
    ingest.pc = "written" =>
        /\ DOMAIN ingest.out.columns = DOMAIN ingest.raw.columns
        /\ DOMAIN ingest.out.cells = DOMAIN ingest.raw.cells
        /\ \A k \in DOMAIN ingest.raw.columns :
              /\ ingest.out.columns[k] = ExpectedName(ingest.raw.columns[k])
              /\ \A i \in 1..NumRows :
                    ingest.out.cells[k][i] =
                        IF /\ ingest.out.columns[k] = <<"chw", "_", "notes">>
                           /\ ingest.raw.cells[k][i] = NaN
                        THEN ""
                        ELSE ingest.raw.cells[k][i]

C23_Witness ==
    /\ ingest.pc = "written"
    /\ ingest.raw.columns = <<<<"Age", WS>>, <<WS, "chw", ".", "notes">>>>
    /\ ingest.raw.cells[2] = <<NaN, "Test note">>
    /\ ingest.out.cells[2] = <<"", "Test note">>
    /\ ingest.raw.cells[1][1] = NaN

====
